---- MODULE Spec2Model ----
(***************************************************************************)
(* Model of bicycle_adventure_stable.py: the Game object driven by         *)
(* Game.run, the Player / Enemy / obstacle sprites and the music fade.     *)
(*                                                                         *)
(* Units.  Rect coordinates are pygame ints (pixels).  Player.speed_y and  *)
(* DroppedObstacle.speed_x are Python floats; they are kept here in HALF   *)
(* units (the model value is twice the Python value), so that the += 0.5   *)
(* of gravity is exact and the float -> int conversion done by a Rect      *)
(* attribute assignment is modelled by RectInt.  Float animation timers    *)
(* are kept as the number of increments since the last reset; the period   *)
(* of each is the number of float additions after which the sum is >= 1.   *)
(* Time is pygame.time.get_ticks() in milliseconds.                        *)
(***************************************************************************)
EXTENDS Integers, Sequences, FiniteSets, TLC

\* ---------------------------------------------------------------- constants
MAIN_MENU == 0
LEVEL_1 == 1
GAME_OVER == 4
GAME_WIN == 5
States == {MAIN_MENU, LEVEL_1, GAME_OVER, GAME_WIN}

SCREEN_WIDTH == 800
SCREEN_HEIGHT == 600
FrameMs == 16                 \* clock.tick(FPS) with FPS = 60: 1000 // 60

NoneV == "None"

\* Player geometry and physics (Player.__init__)
PlayerWidth == 80
normal_height == 120
crouch_height == 80
foot_offset == 25
wheel_adjustment == 5
FootDrop == foot_offset + wheel_adjustment
PlayerStartX == 100
PlayerStartY == 300
JumpSpeed == -20              \* speed_y = -10, in half units
Gravity == 1                  \* speed_y += 0.5, in half units
RunSpeed == 5
CyclePeriod == 7              \* animation_speed 0.15: the 7th addition reaches 1
DizzyPeriod == 5              \* dizzy_animation_speed 0.2: the 5th addition reaches 1
DizzyLoops == 2

\* Terrain (start_level1.after_fade_out, process_level1)
terrain_y == 500
platform_width == 120
platform_height == 50
initial_terrain_length == 2000
generation_threshold == 500
GenerationLength == 1000
CullDistance == 1000

\* Enemy (Enemy.__init__, start_level1)
EnemyStartX == -50
EnemyStartY == 300
EnemyWidth == 50
EnemyHeight == 70
EnemySpeed == 2
EnemyFall == 5
EnemyFoot == 5
EnemyPeriod == 10
EnemyTimer0 == 5

\* Obstacles
FlyWidth == 80
FlyHeight == 40
FlySpeed == 3
FlyAhead == 900
FlyRaise == 20
FlyIntervalMs == 3000
FlyPeriod == 2                \* animation_speed 0.5
hover_offset_x == 150
hover_height == 80
HighPeriod == 4               \* animation_speed 0.3: the 4th addition reaches 1
DropMin == 90
DropMax == 180
DropSize == 30
fall_speed == 6
DropPeriod == 4               \* animation_speed 0.25

\* Music fade
fade_duration == 3000
FadeInSteps == 256
FadeInDelayMs == 5

\* ------------------------------------------------------------------ helpers
Abs(n) == IF n < 0 THEN -n ELSE n

Min(S) == CHOOSE m \in S : \A n \in S : m <= n

\* int() of a float given in half units: truncation toward zero.
RectInt(h2) == IF h2 >= 0 THEN h2 \div 2 ELSE -((-h2) \div 2)

Rect(x, y, w, h) == [x |-> x, y |-> y, w |-> w, h |-> h]

\* pygame.Rect.colliderect for rects of positive size
colliderect(a, b) ==
    /\ a.x < b.x + b.w
    /\ a.x + a.w > b.x
    /\ a.y < b.y + b.h
    /\ a.y + a.h > b.y

PlatformRect(px) == Rect(px, terrain_y, platform_width, platform_height)

PlayerRect(p) == Rect(p.x, p.y, PlayerWidth, p.h)

\* range(a, b, step) for step > 0, as a sequence
Range(a, b, step) ==
    IF b <= a THEN << >>
    ELSE [i \in 1..((b - a + step - 1) \div step) |-> a + (i - 1) * step]

\* ------------------------------------------------------------------- Player
\* Player.__init__(100, 300): files gives the number of frames that loaded.
Player_init(files) ==
    [x |-> PlayerStartX, y |-> PlayerStartY, h |-> normal_height,
     speed_x |-> 0, speed_y |-> 0, on_ground |-> FALSE, crouch |-> FALSE,
     current_frame |-> 0, animation_timer |-> 0, frames |-> files.cycling,
     dizzy_frames |-> files.dizzy, dizzy |-> FALSE, dizzy_frame_idx |-> 0,
     dizzy_timer |-> 0, dizzy_loops |-> 0, dizzy_hits |-> 0]

\* Player.update, dizzy branch (lines 203-213)
DizzyStep(p) ==
    LET t == p.dizzy_timer + 1
        idx == (p.dizzy_frame_idx + 1) % p.dizzy_frames
        loops == IF idx = 0 THEN p.dizzy_loops + 1 ELSE p.dizzy_loops
    IN  IF t < DizzyPeriod
        THEN [p EXCEPT !.dizzy_timer = t]
        ELSE [p EXCEPT !.dizzy_timer = 0,
                       !.dizzy_frame_idx = idx,
                       !.dizzy_loops = loops,
                       !.dizzy = ~(idx = 0 /\ loops >= DizzyLoops)]

\* Player.update, cycling animation while K_RIGHT is held (lines 216-223)
Animate(p, right) ==
    IF ~right THEN p
    ELSE IF p.animation_timer + 1 < CyclePeriod
         THEN [p EXCEPT !.animation_timer = @ + 1]
         ELSE [p EXCEPT !.animation_timer = 0,
                        !.current_frame = (@ + 1) % p.frames]

Move_no_clamp(p) ==
    LET sy == p.speed_y + Gravity
    IN  [p EXCEPT !.speed_y = sy, !.x = p.x + p.speed_x,
                  !.y = RectInt(2 * p.y + sy), !.on_ground = FALSE]

\* Player.update, gravity and the two moves (lines 229-237)
Move(p) ==
    LET sy == p.speed_y + Gravity
        nx == IF p.x + p.speed_x < 0 THEN 0 ELSE p.x + p.speed_x
    IN  [p EXCEPT !.speed_y = sy, !.x = nx,
                  !.y = RectInt(2 * p.y + sy), !.on_ground = FALSE]

ResolvePlatform_keeps_falling(p, q) ==
    IF ~colliderect(PlayerRect(p), PlatformRect(q)) THEN p
    ELSE IF p.speed_y > 0
         THEN [p EXCEPT !.y = (PlatformRect(q).y + FootDrop) - p.h,
                        !.on_ground = TRUE]
         ELSE IF p.speed_y < 0
              THEN [p EXCEPT !.y = PlatformRect(q).y + PlatformRect(q).h,
                             !.speed_y = 0]
              ELSE p

\* Player.update, body of the platform loop for one platform (lines 239-246)
ResolvePlatform(p, q) ==
    IF ~colliderect(PlayerRect(p), PlatformRect(q)) THEN p
    ELSE IF p.speed_y > 0
         THEN [p EXCEPT !.y = (PlatformRect(q).y + FootDrop) - p.h,
                        !.on_ground = TRUE, !.speed_y = 0]
         ELSE IF p.speed_y < 0
              THEN [p EXCEPT !.y = PlatformRect(q).y + PlatformRect(q).h,
                             !.speed_y = 0]
              ELSE p

\* (the record is compared with itself so that each step is evaluated before
\* the next one starts)
RECURSIVE ResolveFrom(_, _, _)
ResolveFrom(p, plats, i) ==
    IF i > Len(plats) THEN p
    ELSE LET q == ResolvePlatform(p, plats[i])
         IN  IF q = q THEN ResolveFrom(q, plats, i + 1) ELSE q

\* Player.update, the platform loop in the group's order (lines 238-246)
ResolvePlatforms(p, plats) == ResolveFrom(p, plats, 1)

\* Player.update, the settle pass (lines 248-256)
Settle(p, plats) ==
    LET beneath == {i \in 1..Len(plats) :
                       /\ p.x + PlayerWidth > plats[i]
                       /\ p.x < plats[i] + platform_width
                       /\ Abs((p.y + p.h) - FootDrop
                               - PlatformRect(plats[i]).y) <= 15}
    IN  IF p.on_ground /\ beneath # {}
        THEN [p EXCEPT !.y = (Min({PlatformRect(plats[i]).y : i \in beneath})
                            + FootDrop) - p.h]
        ELSE p

\* Player.update, crouch / normal image and rect (lines 258-274): the new rect
\* keeps x and the bottom edge
Resize(p) ==
    IF p.crouch /\ p.on_ground
    THEN [p EXCEPT !.h = crouch_height, !.y = (p.y + p.h) - crouch_height]
    ELSE IF p.on_ground
         THEN [p EXCEPT !.h = normal_height, !.y = (p.y + p.h) - normal_height]
         ELSE p

\* Player.update(platforms); right is pygame.key.get_pressed()[K_RIGHT]
Player_update(p, plats, right) ==
    IF p.dizzy /\ p.dizzy_frames > 0
    THEN DizzyStep(p)
    ELSE Resize(Settle(ResolvePlatforms(Move(Animate(p, right)), plats), plats))

\* -------------------------------------------------------------------- Enemy
\* Enemy(-50, 300) with the frame list start_level1 loads (lines 705-714); the
\* rect keeps the 50 x 70 size of the constructor's placeholder.
Enemy_init(files) ==
    [x |-> EnemyStartX, y |-> EnemyStartY, current_frame |-> 0,
     animation_timer |-> EnemyTimer0, frames |-> files.enemy]

EnemyRect(e) == Rect(e.x, e.y, EnemyWidth, EnemyHeight)

\* Enemy.update, body of the platform loop (lines 316-319); s = <<enemy, on_ground>>
EnemyLand(s, q) ==
    LET e == s[1]
    IN  IF /\ colliderect(EnemyRect(e), PlatformRect(q))
           /\ e.y + EnemyHeight > terrain_y
           /\ e.y + EnemyHeight \div 2 < terrain_y + platform_height \div 2
        THEN <<[e EXCEPT !.y = (terrain_y + EnemyFoot) - EnemyHeight], TRUE>>
        ELSE s

RECURSIVE EnemyLandFrom(_, _, _)
EnemyLandFrom(s, plats, i) ==
    IF i > Len(plats) THEN s
    ELSE LET t == EnemyLand(s, plats[i])
         IN  IF t = t THEN EnemyLandFrom(t, plats, i + 1) ELSE t

\* Enemy.update, the horizontal move toward player_x (lines 307-310)
EnemyChase(e, player_x) ==
    IF e.x < player_x THEN [e EXCEPT !.x = @ + EnemySpeed]
    ELSE [e EXCEPT !.x = @ - EnemySpeed]

\* Enemy.update, animation (lines 301-305)
EnemyAnimate(e) ==
    IF e.animation_timer + 1 >= EnemyPeriod
    THEN [e EXCEPT !.animation_timer = 0,
                   !.current_frame = (@ + 1) % e.frames]
    ELSE [e EXCEPT !.animation_timer = @ + 1]

\* Enemy.update(player_x, player_y, platforms)
Enemy_update(e, player_x, plats) ==
    LET e1 == EnemyChase(EnemyAnimate(e), player_x)
        e2 == [e1 EXCEPT !.y = @ + EnemyFall]
        s == EnemyLandFrom(<<e2, FALSE>>, plats, 1)
    IN  IF s[2] THEN s[1] ELSE [s[1] EXCEPT !.y = @ + EnemyFall]

\* ---------------------------------------------------------------- obstacles
\* One record shape for the three sprite classes found in Game.obstacles;
\* fields a class does not have are 0.
FLYING == "FlyingObstacle"
HIGH == "HighFlyingObstacle"
DROPPED == "DroppedObstacle"

\* FlyingObstacle(x, y, width=80, height=40)
FlyingObstacle_init(x, y, files) ==
    [kind |-> FLYING, x |-> x, y |-> y, w |-> FlyWidth, h |-> FlyHeight,
     current_frame |-> 0, animation_timer |-> 0, frames |-> files.flying,
     speed_x |-> 0, drop_timer |-> 0, drop_interval |-> 0]

\* HighFlyingObstacle(x=0, y=80, width=80, height=40); interval is randint(90, 180)
HighFlyingObstacle_init(interval, files) ==
    [kind |-> HIGH, x |-> 0, y |-> hover_height, w |-> FlyWidth, h |-> FlyHeight,
     current_frame |-> 0, animation_timer |-> 0, frames |-> files.high,
     speed_x |-> 0, drop_timer |-> 0, drop_interval |-> interval]

\* DroppedObstacle(x, y): the rect is centred on (x, y); speed_x is
\* random.uniform(-3, 3) in half units
DroppedObstacle_init(x, y, sx, files) ==
    [kind |-> DROPPED, x |-> x - DropSize \div 2, y |-> y - DropSize \div 2,
     w |-> DropSize, h |-> DropSize,
     current_frame |-> 0, animation_timer |-> 0, frames |-> files.dropped,
     speed_x |-> sx, drop_timer |-> 0, drop_interval |-> 0]

ObstacleRect(o) == Rect(o.x, o.y, o.w, o.h)

ObstacleAnimate_no_wrap(o, period) ==
    IF o.frames = 0 THEN o
    ELSE IF o.animation_timer + 1 >= period
         THEN [o EXCEPT !.animation_timer = 0, !.current_frame = @ + 1]
         ELSE [o EXCEPT !.animation_timer = @ + 1]

\* the "Animate frames" block shared by the three update methods
ObstacleAnimate(o, period) ==
    IF o.frames = 0 THEN o
    ELSE IF o.animation_timer + 1 >= period
         THEN [o EXCEPT !.animation_timer = 0,
                        !.current_frame = (@ + 1) % o.frames]
         ELSE [o EXCEPT !.animation_timer = @ + 1]

hover_near_player_stays(o, player_x) == [o EXCEPT !.y = hover_height]

\* HighFlyingObstacle.hover_near_player (lines 423-426)
hover_near_player(o, player_x) ==
    [o EXCEPT !.x = player_x + hover_offset_x, !.y = hover_height]

\* FlyingObstacle.update (lines 358-369): the sprites left in the group
FlyingObstacle_update(o) ==
    LET o1 == [ObstacleAnimate(o, FlyPeriod) EXCEPT !.x = @ - FlySpeed]
    IN  IF o1.x + o1.w < 0 THEN << >> ELSE <<o1>>

DroppedObstacle_update_stays(o) ==
    <<[ObstacleAnimate(o, DropPeriod) EXCEPT
           !.x = RectInt(2 * @ + o.speed_x), !.y = @ + fall_speed]>>

\* DroppedObstacle.update (lines 511-524): the sprites left in the group
DroppedObstacle_update(o) ==
    LET o1 == [ObstacleAnimate(o, DropPeriod) EXCEPT
                   !.x = RectInt(2 * @ + o.speed_x), !.y = @ + fall_speed]
    IN  IF o1.y > SCREEN_HEIGHT THEN << >> ELSE <<o1>>

Drop_keeps_timer(o, rnd, files) ==
    IF o.drop_timer + 1 >= o.drop_interval
    THEN <<[o EXCEPT !.drop_interval = rnd.interval],
           [i \in 1..Len(rnd.drops) |->
               DroppedObstacle_init((o.x + o.w \div 2) + rnd.drops[i][1],
                                    o.y + o.h, rnd.drops[i][2], files)]>>
    ELSE <<[o EXCEPT !.drop_timer = @ + 1], << >> >>

\* HighFlyingObstacle.update, "Drop obstacles periodically" (lines 460-473):
\* rnd.drops holds one <<offset_x, speed_x>> per dropped obstacle, rnd.interval
\* the next drop_interval.  Result: <<self, the sprites added to the group>>.
Drop(o, rnd, files) ==
    IF o.drop_timer + 1 >= o.drop_interval
    THEN <<[o EXCEPT !.drop_timer = 0, !.drop_interval = rnd.interval],
           [i \in 1..Len(rnd.drops) |->
               DroppedObstacle_init((o.x + o.w \div 2) + rnd.drops[i][1],
                                    o.y + o.h, rnd.drops[i][2], files)]>>
    ELSE <<[o EXCEPT !.drop_timer = @ + 1], << >> >>

\* HighFlyingObstacle.update (lines 434-473)
HighFlyingObstacle_update(o, player_x, rnd, files) ==
    Drop(ObstacleAnimate(hover_near_player(o, player_x), HighPeriod), rnd, files)

\* --------------------------------------------------------------------- Game
\* A game value g is a record of the Game attributes together with what the
\* methods read from pygame: g.now (pygame.time.get_ticks()) and the mixer's
\* music channel (g.music_playing, g.music_volume in 1/fade_duration units).
K_SPACE == "K_SPACE"
K_RETURN == "K_RETURN"
K_DOWN == "K_DOWN"
K_LEFT == "K_LEFT"
K_RIGHT == "K_RIGHT"
K_ESCAPE == "K_ESCAPE"
K_a == "K_a"
Keys == {K_SPACE, K_RETURN, K_DOWN, K_LEFT, K_RIGHT, K_ESCAPE, K_a}

AFTER_FADE_OUT == "after_fade_out"

Game_init_keeps_obstacles(g, files) ==
    [g EXCEPT !.state = MAIN_MENU, !.level_time = 0, !.current_music = NoneV,
              !.fade_start_time = 0, !.is_fading_in = FALSE,
              !.is_fading_out = FALSE, !.fade_callback = NoneV,
              !.player = Player_init(files), !.platforms = << >>,
              !.enemies = << >>,
              !.rightmost_platform_x = 0,
              !.last_flying_obstacle_time = g.now]

\* Game.__init__ (lines 594-610): every attribute it assigns; the clock and the
\* mixer are not touched
Game_init(g, files) ==
    [g EXCEPT !.state = MAIN_MENU, !.level_time = 0, !.current_music = NoneV,
              !.fade_start_time = 0, !.is_fading_in = FALSE,
              !.is_fading_out = FALSE, !.fade_callback = NoneV,
              !.player = Player_init(files), !.platforms = << >>,
              !.obstacles = << >>, !.enemies = << >>,
              !.rightmost_platform_x = 0,
              !.last_flying_obstacle_time = g.now]

\* Game.fade_in_music (lines 612-618)
fade_in_music(g) ==
    [g EXCEPT !.is_fading_in = TRUE, !.is_fading_out = FALSE,
              !.fade_start_time = g.now,
              !.music_volume = 0, !.music_playing = TRUE]

fade_out_music_keeps_fade_in(g, callback) ==
    [g EXCEPT !.is_fading_out = TRUE,
              !.fade_start_time = g.now, !.fade_callback = callback]

\* Game.fade_out_music (lines 620-625)
fade_out_music(g, callback) ==
    [g EXCEPT !.is_fading_out = TRUE, !.is_fading_in = FALSE,
              !.fade_start_time = g.now, !.fade_callback = callback]

\* Game.fade_in (lines 652-660): 256 redraws, each followed by delay(5)
fade_in(g) == [g EXCEPT !.now = @ + FadeInSteps * FadeInDelayMs]

\* start_level1.after_fade_out (lines 676-727).  env.load_ok: music.load did not
\* raise pygame.error; env.interval: the new obstacle's randint(90, 180).
after_fade_out(g, env, files) ==
    LET tiles == Range(0, initial_terrain_length, platform_width)
        p0 == Player_init(files)
        p1 == IF \E i \in 1..Len(tiles) : tiles[i] = 0
              THEN [p0 EXCEPT !.y = (terrain_y + FootDrop) - p0.h]
              ELSE p0
        g1 == [g EXCEPT !.state = LEVEL_1, !.level_time = g.now,
                        !.player = p1, !.platforms = tiles,
                        !.obstacles = Append(@,
                             HighFlyingObstacle_init(env.interval, files)),
                        !.rightmost_platform_x =
                             initial_terrain_length - platform_width,
                        !.enemies = <<Enemy_init(files)>>]
        g2 == IF env.load_ok
              THEN [fade_in_music(g1) EXCEPT !.current_music = "music"]
              ELSE [g1 EXCEPT !.current_music = NoneV, !.is_fading_in = FALSE]
    IN  fade_in(g2)

\* start_level2.after_fade_out, FinishLine(2800, 100) (line 739); the class
\* gives it 20 x 500 (lines 543-550)
finish_line == Rect(2800, 100, 20, 500)

\* Game.start_level1 (lines 675-732)
start_level1(g, env, files) ==
    IF g.current_music # NoneV
    THEN fade_out_music(g, AFTER_FADE_OUT)
    ELSE after_fade_out(g, env, files)

update_fade_no_wait(g, env, files) ==
    LET elapsed == g.now - g.fade_start_time
    IN  IF g.is_fading_in
        THEN IF elapsed < fade_duration
             THEN [g EXCEPT !.music_volume = elapsed]
             ELSE [g EXCEPT !.music_volume = fade_duration,
                            !.is_fading_in = FALSE]
        ELSE IF g.is_fading_out
             THEN LET g1 == [g EXCEPT !.music_playing = FALSE,
                                      !.music_volume = fade_duration,
                                      !.is_fading_out = FALSE]
                  IN  IF g1.fade_callback # NoneV
                      THEN [after_fade_out(g1, env, files) EXCEPT
                                !.fade_callback = NoneV]
                      ELSE g1
             ELSE g

\* Game.update_fade (lines 627-650)
update_fade(g, env, files) ==
    LET elapsed == g.now - g.fade_start_time
    IN  IF g.is_fading_in
        THEN IF elapsed < fade_duration
             THEN [g EXCEPT !.music_volume = elapsed]
             ELSE [g EXCEPT !.music_volume = fade_duration,
                            !.is_fading_in = FALSE]
        ELSE IF g.is_fading_out
             THEN IF elapsed < fade_duration
                  THEN [g EXCEPT !.music_volume = fade_duration - elapsed]
                  ELSE LET g1 == [g EXCEPT !.music_playing = FALSE,
                                           !.music_volume = fade_duration,
                                           !.is_fading_out = FALSE]
                       IN  IF g1.fade_callback # NoneV
                           THEN [after_fade_out(g1, env, files) EXCEPT
                                     !.fade_callback = NoneV]
                           ELSE g1
             ELSE g

Defeat_plays_on(g) ==
    IF g.current_music # NoneV THEN fade_out_music(g, NoneV) ELSE g

\* the four-line defeat block (lines 884-890, 893-899, 905-911)
Defeat(g) ==
    LET g1 == [g EXCEPT !.state = GAME_OVER]
    IN  IF g1.current_music # NoneV THEN fade_out_music(g1, NoneV) ELSE g1

EnterDizzy_no_count(p) ==
    [p EXCEPT !.dizzy = TRUE, !.dizzy_frame_idx = 0, !.dizzy_timer = 0,
              !.dizzy_loops = 0]

\* process_level1, first qualifying hit (lines 875-882)
EnterDizzy(p) ==
    [p EXCEPT !.dizzy = TRUE, !.dizzy_frame_idx = 0, !.dizzy_timer = 0,
              !.dizzy_loops = 0, !.dizzy_hits = @ + 1]

CollideObstacle_crouch_ignored(s, snapshot, i) ==
    LET g == s[1]
        o == snapshot[i]
    IN  IF ~colliderect(PlayerRect(g.player), ObstacleRect(o)) THEN s
        ELSE IF o.kind \in {FLYING, DROPPED}
             THEN IF FALSE THEN s
                  ELSE IF g.player.dizzy_hits = 0
                       THEN <<[g EXCEPT !.player = EnterDizzy(@)],
                              s[2] \cup {i}>>
                       ELSE <<Defeat(g), s[2] \cup {i}>>
             ELSE <<Defeat(g), s[2]>>

CollideObstacle_first_hit_loses(s, snapshot, i) ==
    LET g == s[1]
        o == snapshot[i]
    IN  IF ~colliderect(PlayerRect(g.player), ObstacleRect(o)) THEN s
        ELSE IF o.kind \in {FLYING, DROPPED}
             THEN IF g.player.crouch THEN s
                  ELSE <<Defeat(g), s[2] \cup {i}>>
             ELSE <<Defeat(g), s[2]>>

CollideObstacle_dizzy_again(s, snapshot, i) ==
    LET g == s[1]
        o == snapshot[i]
    IN  IF ~colliderect(PlayerRect(g.player), ObstacleRect(o)) THEN s
        ELSE IF o.kind \in {FLYING, DROPPED}
             THEN IF g.player.crouch THEN s
                  ELSE IF ~g.player.dizzy
                       THEN <<[g EXCEPT !.player = EnterDizzy(@)],
                              s[2] \cup {i}>>
                       ELSE <<Defeat(g), s[2] \cup {i}>>
             ELSE <<Defeat(g), s[2]>>

\* process_level1, body of the collision loop for the obstacle at index i of
\* the loop's snapshot (lines 871-899); s = <<game, indices killed so far>>
CollideObstacle(s, snapshot, i) ==
    LET g == s[1]
        o == snapshot[i]
    IN  IF ~colliderect(PlayerRect(g.player), ObstacleRect(o)) THEN s
        ELSE IF o.kind \in {FLYING, DROPPED}
             THEN IF g.player.crouch THEN s
                  ELSE IF g.player.dizzy_hits = 0
                       THEN <<[g EXCEPT !.player = EnterDizzy(@)],
                              s[2] \cup {i}>>
                       ELSE <<Defeat(g), s[2] \cup {i}>>
             ELSE <<Defeat(g), s[2]>>

RECURSIVE CollideFrom(_, _, _)
CollideFrom(s, snapshot, i) ==
    IF i > Len(snapshot) THEN s
    ELSE CollideFrom(CollideObstacle(s, snapshot, i), snapshot, i + 1)

Keep(seq, killed) ==
    LET F[i \in 0..Len(seq)] ==
            IF i = 0 THEN << >>
            ELSE IF i \in killed THEN F[i - 1] ELSE Append(F[i - 1], seq[i])
    IN  F[Len(seq)]

\* process_level1, the collision pass over self.obstacles (lines 870-899)
CollisionPass(g) ==
    LET s == CollideFrom(<<g, {}>>, g.obstacles, 1)
    IN  [s[1] EXCEPT !.obstacles = Keep(g.obstacles, s[2])]

\* process_level1, the enemy check (lines 904-911)
EnemyPass(g) ==
    IF \E i \in 1..Len(g.enemies) :
           colliderect(PlayerRect(g.player), EnemyRect(g.enemies[i]))
    THEN Defeat(g)
    ELSE g

\* process_level1, the update loop over self.obstacles (lines 864-866): each
\* sprite of the snapshot is updated once; dropped obstacles join the group
\* behind the sprites already in it.
RECURSIVE UpdateFrom(_, _, _, _, _)
UpdateFrom(snapshot, i, player_x, rnd, files) ==
    IF i > Len(snapshot) THEN << << >>, << >> >>
    ELSE LET o == snapshot[i]
             rest == UpdateFrom(snapshot, i + 1, player_x, rnd, files)
             own == IF o.kind = FLYING THEN <<FlyingObstacle_update(o), << >> >>
                    ELSE IF o.kind = DROPPED
                         THEN <<DroppedObstacle_update(o), << >> >>
                         ELSE LET r == HighFlyingObstacle_update(o, player_x,
                                                                 rnd, files)
                              IN  << <<r[1]>>, r[2] >>
         IN  <<own[1] \o rest[1], own[2] \o rest[2]>>

UpdateObstacles(g, rnd, files) ==
    LET r == UpdateFrom(g.obstacles, 1, g.player.x, rnd, files)
    IN  [g EXCEPT !.obstacles = r[1] \o r[2]]

\* process_level1, speed_x from the held keys and player.update (lines 812-820)
SteerAndUpdate(g, pressed) ==
    LET sx == IF K_RIGHT \in pressed THEN RunSpeed
              ELSE IF K_LEFT \in pressed THEN -RunSpeed ELSE 0
    IN  [g EXCEPT !.player = Player_update([@ EXCEPT !.speed_x = sx],
                                           g.platforms, K_RIGHT \in pressed)]

\* process_level1, self.high_flying_obstacle.hover_near_player (lines 823-824)
HoverPass(g) ==
    [g EXCEPT !.obstacles =
        [i \in 1..Len(@) |-> IF @[i].kind = HIGH
                             THEN hover_near_player(@[i], g.player.x)
                             ELSE @[i]]]

\* process_level1, enemy.update for every enemy (lines 826-827)
EnemiesUpdate(g) ==
    [g EXCEPT !.enemies =
        [i \in 1..Len(@) |-> Enemy_update(@[i], g.player.x, g.platforms)]]

GeneratePlatforms_once(g) ==
    IF g.player.x > g.rightmost_platform_x - generation_threshold
           /\ g.rightmost_platform_x < initial_terrain_length
    THEN [g EXCEPT !.platforms = @ \o
                       Range(g.rightmost_platform_x + platform_width,
                             g.rightmost_platform_x + GenerationLength
                                 + platform_width,
                             platform_width),
                   !.rightmost_platform_x = @ + GenerationLength]
    ELSE g

\* process_level1, runtime terrain generation (lines 829-839)
GeneratePlatforms(g) ==
    IF g.player.x > g.rightmost_platform_x - generation_threshold
    THEN [g EXCEPT !.platforms = @ \o
                       Range(g.rightmost_platform_x + platform_width,
                             g.rightmost_platform_x + GenerationLength
                                 + platform_width,
                             platform_width),
                   !.rightmost_platform_x = @ + GenerationLength]
    ELSE g

camera_offset_x(g) ==
    IF g.player.x - SCREEN_WIDTH \div 2 > 0
    THEN g.player.x - SCREEN_WIDTH \div 2 ELSE 0

\* process_level1, removal of platforms far behind the camera (lines 841-845)
CullPlatforms(g) ==
    [g EXCEPT !.platforms =
        SelectSeq(@, LAMBDA q : ~(q + platform_width
                                   < camera_offset_x(g) - CullDistance))]

\* process_level1, the timed FlyingObstacle spawn (lines 847-852)
SpawnFlying(g, files) ==
    IF g.now - g.last_flying_obstacle_time > FlyIntervalMs
    THEN [g EXCEPT !.obstacles = Append(@,
                       FlyingObstacle_init(g.player.x + FlyAhead,
                                           g.player.y + FlyRaise, files)),
                   !.last_flying_obstacle_time = g.now]
    ELSE g

\* process_level1 up to the collision pass (lines 811-866)
BeforeCollision(g, pressed, rnd, files) ==
    UpdateObstacles(
        SpawnFlying(CullPlatforms(GeneratePlatforms(EnemiesUpdate(
            HoverPass(SteerAndUpdate(g, pressed))))), files), rnd, files)

\* Game.process_level1 (lines 811-913)
process_level1(g, pressed, rnd, files) ==
    EnemyPass(CollisionPass(BeforeCollision(g, pressed, rnd, files)))

Jump_in_the_air(p) == [p EXCEPT !.speed_y = JumpSpeed, !.on_ground = FALSE]

Jump_stays_on_ground(p) ==
    IF p.on_ground THEN [p EXCEPT !.speed_y = JumpSpeed] ELSE p

\* Game.run, KEYDOWN in LEVEL_1: the jump (lines 780-783)
Jump(p) ==
    IF p.on_ground
    THEN [p EXCEPT !.speed_y = JumpSpeed, !.on_ground = FALSE]
    ELSE p

\* Game.run, KEYDOWN in LEVEL_1 (lines 776-783)
LevelKeyDown(p, key) ==
    LET p1 == IF key = K_DOWN THEN [p EXCEPT !.crouch = TRUE] ELSE p
    IN  IF key = K_SPACE THEN Jump(p1) ELSE p1

KEYDOWN_any_key_restarts(g, key, env, files) ==
    IF g.state = MAIN_MENU
    THEN IF key \in {K_SPACE, K_RETURN} THEN start_level1(g, env, files) ELSE g
    ELSE IF g.state \in {GAME_OVER, GAME_WIN}
         THEN Game_init(g, files)
         ELSE IF g.state = LEVEL_1
              THEN [g EXCEPT !.player = LevelKeyDown(@, key)]
              ELSE g

\* Game.run, the KEYDOWN branch on self.state (lines 770-783)
KEYDOWN(g, key, env, files) ==
    IF g.state = MAIN_MENU
    THEN IF key \in {K_SPACE, K_RETURN} THEN start_level1(g, env, files) ELSE g
    ELSE IF g.state \in {GAME_OVER, GAME_WIN}
         THEN IF key \in {K_SPACE, K_RETURN} THEN Game_init(g, files) ELSE g
         ELSE IF g.state = LEVEL_1
              THEN [g EXCEPT !.player = LevelKeyDown(@, key)]
              ELSE g

KEYUP_any_state(g, key) ==
    IF key = K_DOWN
    THEN [g EXCEPT !.player = [@ EXCEPT !.crouch = FALSE]]
    ELSE g

\* Game.run, the KEYUP branch (lines 784-788)
KEYUP(g, key) ==
    IF g.state = LEVEL_1 /\ key = K_DOWN
    THEN [g EXCEPT !.player = [@ EXCEPT !.crouch = FALSE]]
    ELSE g

\* Game.run, the dispatch on self.state (lines 792-799); the draw_* methods
\* change nothing
Dispatch(g, pressed, rnd, files) ==
    IF g.state = LEVEL_1 THEN process_level1(g, pressed, rnd, files) ELSE g

\* Game.run, one pass of the loop body after the events (lines 790-801);
\* dt is the time the pass takes up to the return of clock.tick
LoopBody(g, pressed, env, rnd, files, dt) ==
    [Dispatch(update_fade(g, env, files), pressed, rnd, files)
        EXCEPT !.now = @ + dt]

\* ------------------------------------------------------------ state machine
VARIABLES
    state, level_time, current_music, fade_start_time, is_fading_in,
    is_fading_out, fade_callback, player, platforms, obstacles, enemies,
    rightmost_platform_x, last_flying_obstacle_time,   \* Game attributes
    now,                  \* pygame.time.get_ticks()
    music_playing,        \* pygame.mixer.music is playing
    music_volume,         \* its volume, in 1/fade_duration
    pressed,              \* the arrow keys pygame.key.get_pressed() reports
    running,              \* the local of Game.run
    in_loop,              \* Game.run has not left its while loop
    files,                \* how many frames of each animation load from disk
    frames_run            \* loop passes so far

vars == <<state, level_time, current_music, fade_start_time, is_fading_in,
          is_fading_out, fade_callback, player, platforms, obstacles, enemies,
          rightmost_platform_x, last_flying_obstacle_time, now, music_playing,
          music_volume, pressed, running, in_loop, files, frames_run>>

Self ==
    [state |-> state, level_time |-> level_time,
     current_music |-> current_music, fade_start_time |-> fade_start_time,
     is_fading_in |-> is_fading_in, is_fading_out |-> is_fading_out,
     fade_callback |-> fade_callback, player |-> player,
     platforms |-> platforms, obstacles |-> obstacles, enemies |-> enemies,
     rightmost_platform_x |-> rightmost_platform_x,
     last_flying_obstacle_time |-> last_flying_obstacle_time,
     now |-> now, music_playing |-> music_playing,
     music_volume |-> music_volume]

Becomes(g) ==
    /\ state' = g.state
    /\ level_time' = g.level_time
    /\ current_music' = g.current_music
    /\ fade_start_time' = g.fade_start_time
    /\ is_fading_in' = g.is_fading_in
    /\ is_fading_out' = g.is_fading_out
    /\ fade_callback' = g.fade_callback
    /\ player' = g.player
    /\ platforms' = g.platforms
    /\ obstacles' = g.obstacles
    /\ enemies' = g.enemies
    /\ rightmost_platform_x' = g.rightmost_platform_x
    /\ last_flying_obstacle_time' = g.last_flying_obstacle_time
    /\ now' = g.now
    /\ music_playing' = g.music_playing
    /\ music_volume' = g.music_volume

\* --- bounded environment
MaxFrames == 3            \* loop passes of a free-play run
MaxStallMs == 3000        \* the longest single loop pass
MaxNow == 5900            \* the clock stops a free-play run (one long pass fits)
MaxFallY == 549           \* a player who fell below the floor stops the run
MaxDizzyFiles == 2        \* dizzy frames found on disk (the game ships 9)
MaxDrops == 2             \* obstacles dropped at once (randint(1, 3))
MaxDrift == 5             \* |speed_x| of a dropped obstacle, in half units
RideFrames == 150         \* loop passes of a ride
RideIdle == 1             \* loop passes of a ride spent outside LEVEL_1

FrameTimes == {FrameMs, MaxStallMs}
DropIntervals == {DropMin, DropMax}
\* one drop that drifts with a rider heading right and one that drifts back
\* to a rider who stopped
DropShots == {<<-(FlyWidth \div 2), MaxDrift>>, <<FlyWidth \div 2, -MaxDrift>>}
DropCounts == 1..(IF MaxDrops < 3 THEN MaxDrops ELSE 3)

SeqsOf(S, n) == [1..n -> S]

Randoms(intervals) ==
    [interval : intervals,
     drops : UNION {SeqsOf(DropShots, n) : n \in DropCounts}]
NoRandom == [interval |-> DropMin, drops |-> << >>]

FreeEnvs == [load_ok : BOOLEAN, interval : DropIntervals]
RideEnvs == [load_ok : {TRUE}, interval : {DropMin}]
NoEnv == [load_ok |-> FALSE, interval |-> DropMin]

FreeFiles ==
    {[cycling |-> 2, dizzy |-> 1, enemy |-> 3, flying |-> 0, high |-> 2,
      dropped |-> 1]}
RideFiles ==
    {[cycling |-> 2, dizzy |-> d, enemy |-> 1, flying |-> 2, high |-> 1,
      dropped |-> 0] : d \in 0..MaxDizzyFiles}

\* does this KEYDOWN run after_fade_out ?
Starts(g, key) ==
    g.state = MAIN_MENU /\ key \in {K_SPACE, K_RETURN} /\ g.current_music = NoneV

\* does this loop pass run after_fade_out from update_fade ?
CallsBack(g) ==
    /\ ~g.is_fading_in /\ g.is_fading_out /\ g.fade_callback # NoneV
    /\ g.now - g.fade_start_time >= fade_duration

\* does this loop pass draw the random numbers of a drop ?
DropDue(g) ==
    /\ g.state = LEVEL_1
    /\ \E i \in 1..Len(g.obstacles) :
          /\ g.obstacles[i].kind = HIGH
          /\ g.obstacles[i].drop_timer + 1 >= g.obstacles[i].drop_interval

\* the Game object main() constructs at process launch (lines 594-610), with
\* the clock at 0 and the mixer silent at full volume
Launched(f) ==
    [state |-> MAIN_MENU, level_time |-> 0, current_music |-> NoneV,
     fade_start_time |-> 0, is_fading_in |-> FALSE, is_fading_out |-> FALSE,
     fade_callback |-> NoneV, player |-> Player_init(f), platforms |-> << >>,
     obstacles |-> << >>, enemies |-> << >>, rightmost_platform_x |-> 0,
     last_flying_obstacle_time |-> 0, now |-> 0, music_playing |-> FALSE,
     music_volume |-> fade_duration]

InitWith(fileset, held) ==
    /\ files \in fileset
    /\ pressed \in held
    /\ running = TRUE
    /\ in_loop = TRUE
    /\ frames_run = 0
    /\ state = MAIN_MENU
    /\ level_time = 0
    /\ current_music = NoneV
    /\ fade_start_time = 0
    /\ is_fading_in = FALSE
    /\ is_fading_out = FALSE
    /\ fade_callback = NoneV
    /\ player = Player_init(files)
    /\ platforms = << >>
    /\ obstacles = << >>
    /\ enemies = << >>
    /\ rightmost_platform_x = 0
    /\ last_flying_obstacle_time = 0
    /\ now = 0
    /\ music_playing = FALSE
    /\ music_volume = fade_duration

\* a KEYDOWN event of one key taken from the queue (lines 767-783)
KeyDownOf(key, envs) ==
    /\ in_loop
    /\ key \notin pressed
    /\ \E env \in (IF Starts(Self, key) THEN envs ELSE {NoEnv}) :
           Becomes(KEYDOWN(Self, key, env, files))
    /\ pressed' = IF key \in {K_LEFT, K_RIGHT}
                  THEN pressed \cup {key} ELSE pressed
    /\ running' = IF key = K_ESCAPE THEN FALSE ELSE running
    /\ UNCHANGED <<in_loop, files, frames_run>>

KeyDown(keyset, envs) == \E key \in keyset : KeyDownOf(key, envs)

\* a KEYUP event of one key taken from the queue (lines 784-788)
KeyUpOf(key) ==
    /\ in_loop
    /\ key \in {K_LEFT, K_RIGHT} => key \in pressed
    /\ Becomes(KEYUP(Self, key))
    /\ pressed' = pressed \ {key}
    /\ UNCHANGED <<running, in_loop, files, frames_run>>

KeyUp(keyset) == \E key \in keyset : KeyUpOf(key)

\* the rest of the loop body, once the queue is empty; the run is followed
\* while the player's top edge is at most depth
FrameAbove(times, limit, envs, depth) ==
    /\ in_loop
    /\ frames_run < limit
    /\ player.y <= depth
    /\ \E dt \in times :
       \E env \in (IF CallsBack(Self) THEN envs ELSE {NoEnv}) :
       \E rnd \in (IF DropDue(update_fade(Self, env, files))
                   THEN Randoms({e.interval : e \in envs}) ELSE {NoRandom}) :
           Becomes(LoopBody(Self, pressed, env, rnd, files, dt))
    /\ frames_run' = frames_run + 1
    /\ in_loop' = running
    /\ UNCHANGED <<pressed, running, files>>

Frame(times, limit, envs) == FrameAbove(times, limit, envs, MaxFallY)

\* ---- free play: every key, short and long loop passes, a short run ----

FreeTimes == {t \in FrameTimes : now + t <= MaxNow}

Init == InitWith(FreeFiles, SUBSET {K_LEFT, K_RIGHT})

Next ==
    \/ KeyDown(Keys, FreeEnvs)
    \/ KeyUp(Keys)
    \/ Frame(FreeTimes, MaxFrames, FreeEnvs)

Spec == Init /\ [][Next]_vars

\* ---- a ride: the rider watches the menu for RideIdle long passes, holding
\* ---- the right arrow key, then plays at 60 passes a second; the music loads

RideKeys == {K_RETURN, K_SPACE, K_DOWN, K_a}
RideTimes == IF state = LEVEL_1 THEN {FrameMs} ELSE {MaxStallMs}
RideLimit == IF state = LEVEL_1 THEN RideFrames ELSE RideIdle

InitRide == InitWith(RideFiles, {{K_RIGHT}})

NextRide ==
    \/ frames_run >= RideIdle /\ KeyDown(RideKeys, RideEnvs)
    \/ frames_run >= RideIdle /\ KeyUp({K_DOWN})
    \/ Frame(RideTimes, RideLimit, RideEnvs)

SpecRide == InitRide /\ [][NextRide]_vars

\* ---- a chase: the rider holds the left arrow key and rides into the enemy
\* ---- at 60 passes a second; the passes outside LEVEL_1 are long; the music
\* ---- may fail to load ----

ChaseFrames == 40         \* loop passes of a chase
ChaseMaxNow == 9900       \* the clock stops a chase (two long passes fit)

ChaseKeys == {K_RETURN, K_SPACE, K_DOWN, K_ESCAPE, K_a}
ChaseTimes ==
    IF state = LEVEL_1 THEN {FrameMs}
    ELSE {t \in {MaxStallMs} : now + t <= ChaseMaxNow}

InitChase == InitWith(FreeFiles, {{K_LEFT}})

NextChase ==
    \/ KeyDown(ChaseKeys, FreeEnvs)
    \/ KeyUp({K_DOWN})
    \/ Frame(ChaseTimes, ChaseFrames, FreeEnvs)

SpecChase == InitChase /\ [][NextChase]_vars

\* ---- a ride to the end of the level: the rider starts the level and may
\* ---- duck before its first tick, then only holds the keys ----

FinishFrames == 530       \* loop passes of a ride to the end of the level

FinishFiles == {f \in RideFiles : f.dizzy = MaxDizzyFiles}
FinishLimit == IF state = LEVEL_1 THEN FinishFrames ELSE RideIdle

InitFinish == InitWith(FinishFiles, {{K_RIGHT}})

NextFinish ==
    \/ frames_run = RideIdle /\ KeyDown({K_RETURN, K_DOWN}, RideEnvs)
    \/ Frame(RideTimes, FinishLimit, RideEnvs)

SpecFinish == InitFinish /\ [][NextFinish]_vars

\* ---- Player.update alone: a player anywhere near the floor, at any small
\* ---- speed, over the terrain the level builds ----

UpdateSteps == 2          \* calls of Player.update in a row
MaxUpdateSpeed == 6       \* |speed_y| at the call, in half units
UpdateReach == 130        \* the player's top is up to this far above the floor

UpdateXs == {0, PlayerStartX, initial_terrain_length - 10,
             initial_terrain_length + PlayerStartX}
UpdateYs == (terrain_y - UpdateReach)..(terrain_y + platform_height)
UpdateSpeeds == (-MaxUpdateSpeed..MaxUpdateSpeed) \cup {JumpSpeed}
\* the tiles after_fade_out lays and those the first generation adds
UpdateTerrains ==
    LET tiles == Range(0, initial_terrain_length, platform_width)
        first == initial_terrain_length - platform_width
    IN  {tiles,
         tiles \o Range(first + platform_width,
                        first + GenerationLength + platform_width,
                        platform_width)}

InitUpdate ==
    /\ files \in FreeFiles
    /\ pressed \in {{}, {K_RIGHT}}
    /\ running = TRUE
    /\ in_loop = TRUE
    /\ frames_run = 0
    /\ state = LEVEL_1
    /\ level_time = 0
    /\ current_music = NoneV
    /\ fade_start_time = 0
    /\ is_fading_in = FALSE
    /\ is_fading_out = FALSE
    /\ fade_callback = NoneV
    /\ \E x \in UpdateXs, y \in UpdateYs, sy \in UpdateSpeeds,
          c \in BOOLEAN, h \in {crouch_height, normal_height} :
          player = [Player_init(files) EXCEPT !.x = x, !.y = y, !.speed_y = sy,
                                              !.crouch = c, !.h = h]
    /\ platforms \in UpdateTerrains
    /\ obstacles = << >>
    /\ enemies = << >>
    /\ rightmost_platform_x = initial_terrain_length - platform_width
    /\ last_flying_obstacle_time = 0
    /\ now = 0
    /\ music_playing = FALSE
    /\ music_volume = fade_duration

\* process_level1, lines 812-820 alone
UpdateStep ==
    /\ frames_run < UpdateSteps
    /\ player' = SteerAndUpdate(Self, pressed).player
    /\ frames_run' = frames_run + 1
    /\ UNCHANGED <<state, level_time, current_music, fade_start_time,
                   is_fading_in, is_fading_out, fade_callback, platforms,
                   obstacles, enemies, rightmost_platform_x,
                   last_flying_obstacle_time, now, music_playing,
                   music_volume, pressed, running, in_loop, files>>

NextUpdate == UpdateStep

SpecUpdate == InitUpdate /\ [][NextUpdate]_vars

\* ---- the fade controller alone: fade_in_music immediately followed by
\* ---- fade_out_music, at any time, and update_fade once per loop pass ----

FadePasses == 6           \* calls of update_fade in a run

FadeTimes == {FrameMs, MaxStallMs - FrameMs, MaxStallMs}
FadeCallbacks == {NoneV, AFTER_FADE_OUT}

InitFade == InitWith(FreeFiles, {{}})

\* fade_in_music() immediately followed by fade_out_music(cb)
FadeInOut ==
    /\ in_loop
    /\ \E cb \in FadeCallbacks :
           Becomes(fade_out_music(fade_in_music(Self), cb))
    /\ UNCHANGED <<pressed, running, in_loop, files, frames_run>>

\* one update_fade call; the clock moves on before the next one
FadeUpdate ==
    /\ in_loop
    /\ frames_run < FadePasses
    /\ \E dt \in FadeTimes :
       \E env \in (IF CallsBack(Self) THEN FreeEnvs ELSE {NoEnv}) :
           Becomes([update_fade(Self, env, files) EXCEPT !.now = @ + dt])
    /\ frames_run' = frames_run + 1
    /\ UNCHANGED <<pressed, running, in_loop, files>>

NextFade == FadeInOut \/ FadeUpdate

SpecFade == InitFade /\ [][NextFade]_vars

\* ---- a long ride: as the ride to the end of the level, far past it ----

FarFrames == 945          \* loop passes of a long ride

FarLimit == IF state = LEVEL_1 THEN FarFrames ELSE RideIdle

InitFar == InitWith(FinishFiles, {{K_RIGHT}})

NextFar ==
    \/ frames_run = RideIdle /\ KeyDown({K_RETURN, K_DOWN}, RideEnvs)
    \/ Frame(RideTimes, FarLimit, RideEnvs)

SpecFar == InitFar /\ [][NextFar]_vars

\* ---- a ride under the dropping obstacle: as the ride to the end of the
\* ---- level, with short and long drop intervals ----

DropsFrames == 380        \* loop passes of a ride under the dropping obstacle

DropsEnvs == [load_ok : {TRUE}, interval : DropIntervals]
DropsLimit == IF state = LEVEL_1 THEN DropsFrames ELSE RideIdle

InitDrops == InitWith(FinishFiles, {{K_RIGHT}})

NextDrops ==
    \/ frames_run = RideIdle /\ KeyDown({K_RETURN, K_DOWN}, DropsEnvs)
    \/ Frame(RideTimes, DropsLimit, DropsEnvs)

SpecDrops == InitDrops /\ [][NextDrops]_vars

\* ---- a jump: the rider starts the level at once, with the left arrow key
\* ---- held or no arrow key, and may jump and duck; the run follows the
\* ---- player below the floor ----

JumpFrames == 30          \* loop passes of a jump
JumpFallY == 1000         \* a player whose top edge is below this stops the run

JumpKeys == {K_RETURN, K_SPACE, K_DOWN}

InitJump == InitWith(FreeFiles, {{}, {K_LEFT}})

NextJump ==
    \/ KeyDown(JumpKeys, RideEnvs)
    \/ KeyUp({K_DOWN})
    \/ FrameAbove({FrameMs}, JumpFrames, RideEnvs, JumpFallY)

SpecJump == InitJump /\ [][NextJump]_vars

\* ---- a ride there and back: the rider ducks and rides right, then lets go
\* ---- of the right arrow key and presses the left one ----

TurnFrame == 520          \* the loop pass after which the rider turns round
TurnFrames == 860         \* loop passes of a ride there and back

TurnLimit == IF state = LEVEL_1 THEN TurnFrames ELSE RideIdle

InitTurn == InitWith(FinishFiles, {{K_RIGHT}})

NextTurn ==
    \/ frames_run = RideIdle /\ KeyDown({K_RETURN, K_DOWN}, RideEnvs)
    \/ frames_run = TurnFrame /\ KeyDown({K_LEFT}, RideEnvs)
    \/ frames_run = TurnFrame /\ KeyUp({K_RIGHT})
    \/ Frame(RideTimes, TurnLimit, RideEnvs)

SpecTurn == InitTurn /\ [][NextTurn]_vars

\* ---- a ride either way: as the ride, with the right arrow key held, away
\* ---- from the enemy, or the left one, into it ----

InitCaught == InitWith(RideFiles, {{K_RIGHT}, {K_LEFT}})

SpecCaught == InitCaught /\ [][NextRide]_vars

\* ------------------------------------------------------------------ claims

StartKeys == {K_SPACE, K_RETURN}

\* the screen state moves only along the edges of the state machine
StateEdges(envs) ==
    /\ state' \in States
    /\ frames_run' # frames_run /\ state' # state =>
           state = LEVEL_1 /\ state' \in {GAME_OVER, GAME_WIN}
    /\ frames_run' = frames_run /\ state' # state =>
           /\ \/ state = MAIN_MENU /\ state' = LEVEL_1
              \/ state \in {GAME_OVER, GAME_WIN} /\ state' = MAIN_MENU
           /\ \E key \in StartKeys : KeyDownOf(key, envs)
    /\ \A key \in Keys \ StartKeys : KeyDownOf(key, envs) => state' = state
    /\ \A key \in Keys : KeyUpOf(key) => state' = state

\* C1: Game.state starts as MAIN_MENU, is always one of the four screen
\* states, and changes only MAIN_MENU -> LEVEL_1 and GAME_OVER / GAME_WIN ->
\* MAIN_MENU on a SPACE / RETURN key-down and LEVEL_1 -> GAME_OVER / GAME_WIN
\* in a tick; no other key event and no other tick changes it.
C1_StateMachine == state = MAIN_MENU /\ [][StateEdges(FreeEnvs)]_vars

\* a restarted game: the level was started, lost and left again
C1_Witness == state = MAIN_MENU /\ now > 0 /\ last_flying_obstacle_time = now

\* C10: is_fading_in and is_fading_out are never both true; the fade_in_music
\* of a level start leaves is_fading_in set and is_fading_out clear, the
\* fade_out_music of a defeat leaves is_fading_out set and is_fading_in clear.
C10_OneFade ==
    /\ [](~(is_fading_in /\ is_fading_out))
    /\ [][/\ state = MAIN_MENU /\ state' = LEVEL_1 /\ current_music' # NoneV =>
               is_fading_in' /\ ~is_fading_out' /\ fade_start_time' = now
          /\ state = LEVEL_1 /\ state' = GAME_OVER /\ current_music # NoneV =>
               is_fading_out' /\ ~is_fading_in' /\ fade_start_time' = now]_vars

\* a defeat that interrupted the fade-in of its level
C10_Witness ==
    /\ state = GAME_OVER /\ is_fading_out /\ ~is_fading_in
    /\ fade_start_time - level_time < fade_duration

\* the game as the collision pass of this tick finds it, when the tick is a
\* LEVEL_1 tick whose random draws are rnd
AtCollision(rnd) == BeforeCollision(update_fade(Self, NoEnv, files), pressed,
                                    rnd, files)

\* this step is a LEVEL_1 tick
IsTick == state = LEVEL_1 /\ in_loop /\ frames_run' = frames_run + 1

\* the random draws this tick may have made
Draws == IF DropDue(Self) THEN Randoms({DropMin}) ELSE {NoRandom}

\* the tick made the random draws rnd
TickWith(rnd) ==
    \E dt \in FrameTimes :
        Becomes(LoopBody(Self, pressed, NoEnv, rnd, files, dt))

\* indices of the flying and dropped obstacles the player of g overlaps
Hits(g) ==
    {i \in 1..Len(g.obstacles) :
        /\ g.obstacles[i].kind \in {FLYING, DROPPED}
        /\ colliderect(PlayerRect(g.player), ObstacleRect(g.obstacles[i]))}

EnemyHits(g) ==
    \E i \in 1..Len(g.enemies) :
        colliderect(PlayerRect(g.player), EnemyRect(g.enemies[i]))

Count(o, seq) == Cardinality({i \in 1..Len(seq) : seq[i] = o})

\* the collision pass of this tick finds a standing player without hits on
\* a flying or dropped obstacle and away from the enemy
FirstHit(g) ==
    /\ g.player.dizzy_hits = 0 /\ ~g.player.crouch
    /\ Hits(g) # {} /\ ~EnemyHits(g)

\* the tick ends with the player dizzy, one hit counted, the first obstacle
\* hit removed and the level still running
FirstHitEffect(g) ==
    /\ player'.dizzy /\ player'.dizzy_hits = 1 /\ state' = LEVEL_1
    /\ LET o == g.obstacles[Min(Hits(g))]
       IN  Count(o, obstacles') < Count(o, g.obstacles)

\* C2 as stated: a first hit on a standing player, the enemy away, leaves
\* the player dizzy with one hit, removes the obstacle and keeps LEVEL_1,
\* whatever other obstacles are present.
C2_AnyOthers ==
    [][IsTick =>
         \A rnd \in Draws :
            LET g == AtCollision(rnd)
            IN  (FirstHit(g) /\ TickWith(rnd)) => FirstHitEffect(g)]_vars

\* C2: the same, when no second flying or dropped obstacle overlaps the
\* player in that collision pass.
C2_FirstHit ==
    [][IsTick =>
         \A rnd \in Draws :
            LET g == AtCollision(rnd)
            IN  (FirstHit(g) /\ Cardinality(Hits(g)) = 1 /\ TickWith(rnd))
                    => FirstHitEffect(g)]_vars

\* the player has just been hit for the first time
C2_Witness ==
    /\ state = LEVEL_1 /\ player.dizzy /\ player.dizzy_hits = 1
    /\ player.dizzy_timer = 0 /\ player.dizzy_frame_idx = 0
    /\ player.dizzy_loops = 0

\* C3: a LEVEL_1 tick whose collision pass finds a standing player with
\* dizzy_hits >= 1 on a flying or dropped obstacle ends in GAME_OVER, with
\* dizzy, dizzy_frame_idx, dizzy_timer, dizzy_loops and dizzy_hits as the
\* collision pass found them.
C3_SecondHit ==
    [][IsTick =>
         \A rnd \in Draws :
            LET g == AtCollision(rnd)
            IN  (/\ g.player.dizzy_hits >= 1 /\ ~g.player.crouch
                 /\ Hits(g) # {} /\ TickWith(rnd))
                    => /\ state' = GAME_OVER
                       /\ player' = g.player]_vars

\* a second hit ended the level while the dizzy animation was running
C3_Witness ==
    /\ state = GAME_OVER /\ ~EnemyHits(Self)
    /\ player.dizzy /\ player.dizzy_frames > 0 /\ player.dizzy_hits = 1
    /\ player.dizzy_timer + player.dizzy_frame_idx + player.dizzy_loops > 0

\* increments of dizzy_timer since the player became dizzy
DizzyProgress(p) ==
    (p.dizzy_loops * p.dizzy_frames + p.dizzy_frame_idx) * DizzyPeriod
        + p.dizzy_timer

\* C4: every LEVEL_1 tick that starts with a dizzy player advances the dizzy
\* animation by one increment and ends with dizzy false exactly when
\* dizzy_frame_idx has wrapped to 0 for the second time (dizzy_loops = 2),
\* so that dizzy ends by itself, and never earlier, for every number of
\* dizzy frames loaded.
C4_DizzyEnds ==
    [][IsTick /\ player.dizzy =>
          /\ DizzyProgress(player') = DizzyProgress(player) + 1
          /\ player'.dizzy <=> ~(player'.dizzy_loops = DizzyLoops
                                   /\ player'.dizzy_frame_idx = 0
                                   /\ player'.dizzy_timer = 0)]_vars

\* C5: while the player is dizzy with dizzy frames loaded, no key event and
\* no LEVEL_1 tick changes the player's position, speed_y, on_ground or
\* cycling frame index.
C5_DizzyFrozen ==
    [][state = LEVEL_1 /\ player.dizzy /\ player.dizzy_frames > 0
           /\ state' # MAIN_MENU =>
          /\ player'.x = player.x /\ player'.y = player.y
          /\ player'.speed_y = player.speed_y
          /\ player'.on_ground = player.on_ground
          /\ player'.current_frame = player.current_frame]_vars

\* the flying or dropped obstacles that overlap the player are the only
\* sprites that do
OnlyHits(g) ==
    /\ Hits(g) # {} /\ ~EnemyHits(g)
    /\ \A i \in 1..Len(g.obstacles) :
          colliderect(PlayerRect(g.player), ObstacleRect(g.obstacles[i]))
              => i \in Hits(g)

\* C6: a LEVEL_1 tick whose collision pass finds the crouch flag set and the
\* player on flying or dropped obstacles only leaves the player (dizzy,
\* dizzy_hits, dizzy_loops), the state and the obstacle group as the pass
\* found them.
C6_CrouchAvoids ==
    [][IsTick =>
         \A rnd \in Draws :
            LET g == AtCollision(rnd)
            IN  (g.player.crouch /\ OnlyHits(g) /\ TickWith(rnd))
                    => /\ player' = g.player
                       /\ state' = LEVEL_1
                       /\ obstacles' = g.obstacles]_vars

\* a crouching rider under an obstacle, never hit
C6_Witness ==
    /\ state = LEVEL_1 /\ player.crouch /\ player.h = crouch_height
    /\ Hits(Self) # {} /\ player.dizzy_hits = 0

\* Player.update lands the player of this tick: the vertical move is
\* downward and ends on a platform
Lands ==
    LET sx == IF K_RIGHT \in pressed THEN RunSpeed
              ELSE IF K_LEFT \in pressed THEN -RunSpeed ELSE 0
        m == Move([player EXCEPT !.speed_x = sx])
    IN  /\ ~(player.dizzy /\ player.dizzy_frames > 0)
        /\ m.speed_y > 0
        /\ \E i \in 1..Len(platforms) :
              colliderect(PlayerRect(m), PlatformRect(platforms[i]))

\* C7: in LEVEL_1 a SPACE key-down changes the player only if on_ground is
\* true, and then sets speed_y to -10 and on_ground to false and nothing
\* else; on_ground turns true again only in a tick whose Player.update
\* resolves a downward platform collision, so no second jump is accepted
\* before a landing.
C7_Jump ==
    /\ [][state = LEVEL_1 /\ KeyDownOf(K_SPACE, RideEnvs) =>
             player' = IF player.on_ground
                       THEN [player EXCEPT !.speed_y = -20,
                                           !.on_ground = FALSE]
                       ELSE player]_vars
    /\ [][~player.on_ground /\ player'.on_ground => IsTick /\ Lands]_vars

\* a jump has just been accepted
C7_Witness ==
    state = LEVEL_1 /\ ~player.on_ground /\ player.speed_y = -20

\* the player after gravity and the two moves of this Player.update
Moved ==
    LET sx == IF K_RIGHT \in pressed THEN RunSpeed
              ELSE IF K_LEFT \in pressed THEN -RunSpeed ELSE 0
    IN  Move([player EXCEPT !.speed_x = sx])

\* indices of the platforms the moved player overlaps
Touched == {i \in 1..Len(platforms) :
               colliderect(PlayerRect(Moved), PlatformRect(platforms[i]))}

C8_Win == state = LEVEL_1 => ~colliderect(PlayerRect(player), finish_line)

\* C11: fade_in_music() immediately followed by fade_out_music(cb) leaves
\* is_fading_out set and is_fading_in clear, timed from that moment; a stored
\* callback keeps the fade-out pending; an update_fade call invokes the
\* callback (after_fade_out, which stamps level_time) exactly when a callback
\* is stored and at least fade_duration has elapsed since fade_out_music, and
\* that call clears the callback, so it is invoked once and never earlier.
C11_FadeCallback ==
    /\ [](fade_callback # NoneV => is_fading_out /\ ~is_fading_in)
    /\ [][frames_run' = frames_run =>
              /\ is_fading_out' /\ ~is_fading_in'
              /\ fade_start_time' = now
              /\ level_time' = level_time]_vars
    /\ [][frames_run' # frames_run =>
              /\ level_time' # level_time <=>
                     /\ fade_callback # NoneV
                     /\ now - fade_start_time >= fade_duration
              /\ level_time' # level_time =>
                     /\ fade_callback' = NoneV
                     /\ level_time' = now
                     /\ state' = LEVEL_1
              /\ level_time' = level_time =>
                     /\ fade_callback' = fade_callback
                     /\ fade_callback # NoneV =>
                            fade_start_time' = fade_start_time]_vars

\* the callback ran on a later update_fade call than the first one after the
\* request, and the fade-out is over
C11_Witness ==
    /\ state = LEVEL_1 /\ fade_callback = NoneV /\ ~is_fading_out
    /\ frames_run >= 3
    /\ level_time >= fade_duration + FrameMs

\* the level the first confirm key-down after process launch starts, when the
\* environment answers env
FirstLevel(env) == after_fade_out(Launched(files), env, files)

\* C12: every level start, also the one after a game that ended and was left
\* with a confirm key-down, yields the player, the platforms,
\* rightmost_platform_x, the enemies, the obstacles, the fade flags and
\* fade_callback of the first level start after launch, up to the
\* HighFlyingObstacle's random drop interval.
C12_Restart ==
    [][state = MAIN_MENU /\ state' = LEVEL_1 =>
          \E env \in RideEnvs :
              LET first == FirstLevel(env)
              IN  /\ env.load_ok = (current_music' # NoneV)
                  /\ player' = first.player
                  /\ platforms' = first.platforms
                  /\ rightmost_platform_x' = first.rightmost_platform_x
                  /\ enemies' = first.enemies
                  /\ obstacles' = first.obstacles
                  /\ is_fading_in' = first.is_fading_in
                  /\ is_fading_out' = first.is_fading_out
                  /\ fade_callback' = first.fade_callback]_vars

\* a level started again after a game that was lost in LEVEL_1
C12_Witness ==
    /\ state = LEVEL_1 /\ level_time > MaxStallMs + FadeInSteps * FadeInDelayMs
    /\ Len(obstacles) = 1 /\ player.dizzy_hits = 0

\* the clock time the spawn schedule is said to run from: the previous spawn
\* of this level or, before the level's first spawn, the level start
SpawnReference ==
    IF last_flying_obstacle_time > level_time
    THEN last_flying_obstacle_time ELSE level_time

\* this tick added a FlyingObstacle
Spawned == last_flying_obstacle_time' # last_flying_obstacle_time

\* C13: a LEVEL_1 tick spawns a FlyingObstacle exactly when more than 3000 ms
\* have passed since the previous spawn or, for the first spawn of a level,
\* since the level started; the spawn is timed at the tick's clock reading
\* and placed 900 ahead of the player (it has flown one step by the end of
\* the tick).
C13_SpawnSchedule ==
    [][IsTick =>
          /\ Spawned <=> now - SpawnReference > FlyIntervalMs
          /\ Spawned =>
                /\ last_flying_obstacle_time' = now
                /\ \E i \in 1..Len(obstacles') :
                      /\ obstacles'[i].kind = FLYING
                      /\ obstacles'[i].x = player'.x + FlyAhead - FlySpeed]_vars

\* C14: no LEVEL_1 tick that finds the player at x >= 4000 adds a
\* FlyingObstacle.
C14_SpawnCutoff == [][IsTick /\ player'.x >= 4000 => ~Spawned]_vars

\* indices of the HighFlyingObstacles in a sprite sequence
Highs(seq) == {i \in 1..Len(seq) : seq[i].kind = HIGH}

\* C15: in LEVEL_1, also after restarts, the obstacle group holds exactly
\* one HighFlyingObstacle, and every LEVEL_1 tick ends with it at
\* x = player.rect.x + 150, y = 80.
C15_OneHigh ==
    /\ [](state = LEVEL_1 => Cardinality(Highs(obstacles)) = 1)
    /\ [][IsTick =>
             /\ Cardinality(Highs(obstacles')) = 1
             /\ \A i \in Highs(obstacles') :
                    /\ obstacles'[i].x = player'.x + hover_offset_x
                    /\ obstacles'[i].y = hover_height]_vars

\* a level started again, some ticks on, with the obstacle ahead of the rider
C15_Witness ==
    /\ state = LEVEL_1 /\ level_time > MaxStallMs + FadeInSteps * FadeInDelayMs
    /\ player.x > PlayerStartX + RunSpeed
    /\ \E i \in Highs(obstacles) : obstacles[i].x = player.x + hover_offset_x

\* the frame indices of the sprites in play, each with its frame count
FrameIndices ==
    {<<player.current_frame, player.frames>>,
     <<player.dizzy_frame_idx, player.dizzy_frames>>}
    \cup {<<enemies[i].current_frame, enemies[i].frames>> :
             i \in 1..Len(enemies)}
    \cup {<<obstacles[i].current_frame, obstacles[i].frames>> :
             i \in 1..Len(obstacles)}

\* index b follows index a in an animation of n frames
Advance(a, b, n) == b = a \/ (n > 0 /\ b = (a + 1) % n)

\* a sprite of the next state that this tick created
IsNew(o) ==
    /\ o.current_frame = 0
    /\ \/ o.kind = FLYING /\ o.x = player'.x + FlyAhead - FlySpeed
       \/ o.kind = DROPPED /\ o.animation_timer = 0
                           /\ o.y = hover_height + FlyHeight - DropSize \div 2

\* a sprite of the next state that is sprite o of this state after its update
IsUpdateOf(o2, o) ==
    /\ o2.kind = o.kind
    /\ \/ o.kind = HIGH
       \/ o.kind = FLYING /\ FlyingObstacle_update(o) = <<o2>>
       \/ o.kind = DROPPED /\ DroppedObstacle_update(o) = <<o2>>

\* the frame indices move on by one step of their animation, or stay
IndicesAdvance ==
    /\ Advance(player.current_frame, player'.current_frame, player.frames)
    /\ Advance(player.dizzy_frame_idx, player'.dizzy_frame_idx,
               player.dizzy_frames)
    /\ Len(enemies') = Len(enemies)
    /\ \A i \in 1..Len(enemies) :
           Advance(enemies[i].current_frame, enemies'[i].current_frame,
                   enemies[i].frames)
    /\ \A j \in 1..Len(obstacles') :
           \/ IsNew(obstacles'[j])
           \/ \E i \in 1..Len(obstacles) :
                 /\ IsUpdateOf(obstacles'[j], obstacles[i])
                 /\ Advance(obstacles[i].current_frame,
                            obstacles'[j].current_frame, obstacles[i].frames)

\* a key event in LEVEL_1 leaves every frame index alone
IndicesKept ==
    /\ player'.current_frame = player.current_frame
    /\ player'.dizzy_frame_idx = player.dizzy_frame_idx
    /\ enemies' = enemies /\ obstacles' = obstacles

\* sprites made at a level start or by Game.__init__ start at index 0
IndicesFresh ==
    /\ player'.current_frame = 0 /\ player'.dizzy_frame_idx = 0
    /\ \A i \in 1..Len(enemies') : enemies'[i].current_frame = 0
    /\ \A i \in 1..Len(obstacles') : obstacles'[i].current_frame = 0

C17_OffCamera ==
    state = LEVEL_1 =>
        \A i \in 1..Len(obstacles) :
            obstacles[i].kind = FLYING =>
                ~(obstacles[i].x + obstacles[i].w < camera_offset_x(Self))

\* the DroppedObstacles of a sprite sequence that have not been updated yet:
\* those the HighFlyingObstacle o dropped in the tick that just ended
FreshDrops(seq, o) ==
    {i \in 1..Len(seq) :
        /\ seq[i].kind = DROPPED
        /\ seq[i].y + seq[i].h \div 2 = o.y + o.h}

\* the drop schedule of the HighFlyingObstacle o over one tick that leaves
\* it as o2 in the next state
DropSchedule(o, o2) ==
    IF o.drop_timer + 1 >= o.drop_interval
    THEN /\ o2.drop_timer = 0
         /\ Cardinality(FreshDrops(obstacles', o2)) \in 1..3
         /\ \A i \in FreshDrops(obstacles', o2) :
                Abs((obstacles'[i].x + obstacles'[i].w \div 2)
                    - (o2.x + o2.w \div 2)) <= FlyWidth \div 2
    ELSE /\ o2.drop_timer = o.drop_timer + 1
         /\ o2.drop_interval = o.drop_interval
         /\ FreshDrops(obstacles', o2) = {}

\* C18: the HighFlyingObstacle counts every LEVEL_1 tick once, from 0 at the
\* level start and after each drop, against an interval of 90 to 180 ticks,
\* and drops exactly on the tick that completes the interval: 1 to 3
\* DroppedObstacles, each centred within 40 of the obstacle's centre
\* horizontally and on its bottom edge vertically.
C18_Drops ==
    /\ [](state = LEVEL_1 =>
             \A i \in Highs(obstacles) :
                 /\ obstacles[i].drop_interval \in DropMin..DropMax
                 /\ obstacles[i].drop_timer \in 0..(obstacles[i].drop_interval - 1))
    /\ [][state = MAIN_MENU /\ state' = LEVEL_1 =>
             \A i \in Highs(obstacles') : obstacles'[i].drop_timer = 0]_vars
    /\ [][IsTick =>
             \A i \in Highs(obstacles) : \A j \in Highs(obstacles') :
                 DropSchedule(obstacles[i], obstacles'[j])]_vars

\* a drop that ends a long interval which followed a short one
C18_Witness ==
    /\ state = LEVEL_1
    /\ frames_run = RideIdle + DropMin + DropMax
    /\ \E i \in Highs(obstacles) :
           /\ obstacles[i].drop_timer = 0
           /\ FreshDrops(obstacles, obstacles[i]) # {}

\* indices of the DroppedObstacles in a sprite sequence
Droppeds(seq) == {i \in 1..Len(seq) : seq[i].kind = DROPPED}

\* the DroppedObstacle o after one update, before its removal is decided
Fallen(o) ==
    [ObstacleAnimate(o, DropPeriod) EXCEPT
         !.x = RectInt(2 * @ + o.speed_x), !.y = @ + fall_speed]

\* the fate of the DroppedObstacle o over one tick: removed when its top edge
\* has passed the view height or when it hit the standing player, else kept,
\* one fall_speed lower
Falls(o) ==
    LET o2 == Fallen(o)
    IN  /\ o2.y = o.y + fall_speed
        /\ IF o2.y > SCREEN_HEIGHT
           THEN Count(o2, obstacles') = 0
           ELSE IF /\ colliderect(PlayerRect(player'), ObstacleRect(o2))
                   /\ ~player'.crouch
                THEN Count(o2, obstacles') = 0
                ELSE Count(o2, obstacles') = Count(o, obstacles)

\* C19: a DroppedObstacle is created with its centre on the bottom edge of
\* the HighFlyingObstacle and moves down by fall_speed on every LEVEL_1 tick
\* after that; it leaves the obstacle group on the first tick that takes its
\* top edge past the view height 600, and before that only by hitting the
\* player; the group never holds one below the view, and every one it holds
\* after a tick was in it before or was dropped in that tick.
C19_DroppedFalls ==
    /\ [](\A i \in Droppeds(obstacles) :
              /\ obstacles[i].y <= SCREEN_HEIGHT
              /\ obstacles[i].y >= hover_height + FlyHeight - DropSize \div 2
              /\ (obstacles[i].y - (hover_height + FlyHeight - DropSize \div 2))
                     % fall_speed = 0)
    /\ [][IsTick =>
             /\ \A i \in Droppeds(obstacles) : Falls(obstacles[i])
             /\ \A j \in Droppeds(obstacles') :
                    \/ IsNew(obstacles'[j])
                    \/ \E i \in Droppeds(obstacles) :
                           obstacles'[j] = Fallen(obstacles[i])]_vars

\* a DroppedObstacle on its last tick above the bottom of the view, having
\* passed the crouched rider
C19_Witness ==
    /\ state = LEVEL_1 /\ player.crouch
    /\ \E i \in Droppeds(obstacles) :
           obstacles[i].y + fall_speed > SCREEN_HEIGHT

\* the x-origins of the platform tiles in play
TileXs == {platforms[i] : i \in 1..Len(platforms)}

\* C20: in LEVEL_1 the platform tiles, sorted by x, follow one another at
\* x-origins exactly platform_width (120) apart: every tile but the last has
\* its successor 120 further on.
C20_EndToEnd ==
    state = LEVEL_1 =>
        \A a \in TileXs :
            LET after == {b \in TileXs : b > a}
            IN  after # {} => Min(after) = a + platform_width

\* C21: the player's left edge is never left of the world's left boundary,
\* player.rect.left >= 0, whatever the arrow keys, jumps, crouches and dizzy
\* periods; a key event never moves the player.
C21_LeftBoundary ==
    /\ [](player.x >= 0)
    /\ [][frames_run' = frames_run /\ state = LEVEL_1 =>
              player'.x = player.x]_vars

\* the rider has pushed against the left boundary for some ticks
C21_Witness ==
    /\ state = LEVEL_1 /\ K_LEFT \in pressed /\ player.x = 0
    /\ frames_run > (PlayerStartX \div RunSpeed) + 2

\* a clock time by which the fade-out of the music still playing outside
\* LEVEL_1 had begun: the defeat's fade_out_music call or, once the restart
\* key-down has rebuilt the Game, that key-down
FadeOutBegun ==
    IF state = GAME_OVER THEN fade_start_time ELSE last_flying_obstacle_time

\* C22: once a fade-out has begun and no fade-in follows, the first loop
\* pass whose update_fade runs 3000 ms or more after the fade-out began
\* stops the music and resets the volume to 1.0, and no earlier pass stops
\* it, whatever key events, a restart included, arrive in between.
C22_FadeOutStops ==
    [][/\ frames_run' # frames_run
       /\ state \in {MAIN_MENU, GAME_OVER}
       /\ music_playing
       => /\ now - FadeOutBegun >= fade_duration =>
                ~music_playing' /\ music_volume' = fade_duration
          /\ state = GAME_OVER /\ now - FadeOutBegun < fade_duration =>
                music_playing']_vars

\* the world of the level: player, enemies, obstacles and platforms
WorldKept == UNCHANGED <<player, enemies, obstacles, platforms,
                         rightmost_platform_x>>

\* only the player's crouch flag or its jump fields were touched
OnlyCrouch == player' = [player EXCEPT !.crouch = player'.crouch]
OnlyJump == player' = [player EXCEPT !.speed_y = JumpSpeed,
                                     !.on_ground = FALSE]

\* C23: outside LEVEL_1 a loop pass, a key-up and a key-down of any key
\* other than SPACE / RETURN leave player, enemies, obstacles and platforms
\* unchanged; SPACE / RETURN there start or reset the game and never act as a
\* jump; in LEVEL_1 a key event changes nothing but the player, and only as
\* a crouch, an un-crouch or a jump.
C23_Routing ==
    [][/\ state # LEVEL_1 /\ frames_run' # frames_run => WorldKept
       /\ state # LEVEL_1 =>
              /\ \A key \in Keys \ StartKeys :
                     KeyDownOf(key, FreeEnvs) => WorldKept
              /\ \A key \in Keys : KeyUpOf(key) => WorldKept
              /\ \A key \in StartKeys :
                     KeyDownOf(key, FreeEnvs) =>
                         /\ state' # state
                         /\ player'.speed_y = 0 /\ ~player'.crouch
       /\ state = LEVEL_1 /\ frames_run' = frames_run =>
              /\ UNCHANGED <<enemies, obstacles, platforms,
                             rightmost_platform_x, state>>
              /\ player' = player \/ OnlyCrouch \/ OnlyJump]_vars

\* the game-over screen has been shown for a long pass over a rider who was
\* caught crouching
C23_Witness ==
    /\ state = GAME_OVER /\ player.crouch
    /\ now - fade_start_time >= MaxStallMs

\* C24: on every LEVEL_1 tick each enemy's x changes by exactly its speed
\* (2), and the move does not take it further from the x the player has when
\* the enemy is updated than it was just before the move.
C24_EnemyCloses ==
    [][IsTick =>
          /\ Len(enemies') = Len(enemies)
          /\ \A i \in 1..Len(enemies) :
                 /\ Abs(enemies'[i].x - enemies[i].x) = EnemySpeed
                 /\ Abs(enemies'[i].x - player'.x)
                        <= Abs(enemies[i].x - player'.x)]_vars

\* C25: whenever player.on_ground is true, player.speed_y is 0: a landing
\* sets the flag together with zeroing the speed, and a jump sets the speed
\* together with clearing the flag, also during a dizzy period.
C25_Grounded ==
    /\ [](player.on_ground => player.speed_y = 0)
    /\ [][player'.speed_y = JumpSpeed /\ player.speed_y # JumpSpeed =>
              player.on_ground /\ ~player'.on_ground]_vars

\* on the ground in the middle of a dizzy period
C25_Witness ==
    /\ state = LEVEL_1 /\ player.on_ground
    /\ player.dizzy /\ player.dizzy_frames > 0 /\ player.dizzy_timer > 0

\* C26: the player never passes through the terrain: at the end of every
\* LEVEL_1 tick, every platform that horizontally overlaps the player's box
\* has its top at most 30 units above the player's bottom edge
\* (player.bottom <= platform.top + 30), jumps from a platform included.
C26_NoTunnelling ==
    [][IsTick /\ state' = LEVEL_1 =>
          \A i \in 1..Len(platforms') :
              (/\ player'.x < platforms'[i] + platform_width
               /\ platforms'[i] < player'.x + PlayerWidth)
                  => player'.y + player'.h <= terrain_y + 30]_vars

\* C27: every accepted jump is followed by a landing: at the end of every
\* LEVEL_1 tick a player in the air is still above the underside of the
\* terrain, from where a landing on a platform remains possible (a fall only
\* increases rect.y, and no platform lies lower than terrain_y).
C27_JumpLands ==
    [][IsTick /\ state' = LEVEL_1 /\ ~player'.on_ground =>
          player'.y < terrain_y + platform_height]_vars

\* C28: runtime terrain generation stays ahead of the player: in LEVEL_1,
\* after every tick, player.rect.x <= rightmost_platform_x - 500 and some
\* active platform has its right edge at least 500 units right of
\* player.rect.x; a tick moves the player by at most 5 units.
C28_GenerationAhead ==
    /\ [](state = LEVEL_1 =>
              /\ player.x <= rightmost_platform_x - generation_threshold
              /\ \E b \in TileXs :
                     b + platform_width >= player.x + generation_threshold)
    /\ [][IsTick => Abs(player'.x - player.x) <= RunSpeed]_vars

\* the rider is beyond the point that triggered the second batch of tiles
C28_Witness ==
    /\ state = LEVEL_1
    /\ rightmost_platform_x >= initial_terrain_length + 2 * GenerationLength
    /\ player.x > initial_terrain_length + GenerationLength

\* C29: terrain is never missing under the player: in every LEVEL_1 state,
\* whatever the left / right movement, at least one active platform
\* horizontally overlaps the player's bounding box.
C29_TerrainUnder ==
    [](state = LEVEL_1 =>
           \E b \in TileXs :
               b < player.x + PlayerWidth /\ player.x < b + platform_width)

\* C30: the player enters Dizzy at most once per level: dizzy_hits is 0 or 1
\* in every state, player.dizzy is true only with dizzy_hits = 1, dizzy
\* becomes true only in the step that counts the first hit, and once it has
\* ended it does not become true again in the same level.
C30_DizzyOnce ==
    /\ [](player.dizzy_hits \in {0, 1})
    /\ [](player.dizzy => player.dizzy_hits = 1)
    /\ [][~player.dizzy /\ player'.dizzy =>
              player.dizzy_hits = 0 /\ player'.dizzy_hits = 1]_vars
    /\ [][~player.dizzy /\ player.dizzy_hits >= 1 => ~player'.dizzy]_vars

\* a hit after the dizzy period had ended: the level is lost, the player is
\* not dizzy again
C30_Witness ==
    /\ state = GAME_OVER /\ ~EnemyHits(Self)
    /\ ~player.dizzy /\ ~player.crouch
    /\ player.dizzy_hits = 1 /\ player.dizzy_loops = DizzyLoops

\* the collision loop reaches the obstacle at index i with dizzy_hits >= 1:
\* a hit was counted before this pass, or earlier in it
CountedAt(g, i) ==
    g.player.dizzy_hits >= 1 \/ \E j \in Hits(g) : j < i

\* what a defeat in this tick's collision pass requires
LossBy(g) ==
    \/ EnemyHits(g)
    \/ ~g.player.crouch /\ \E i \in Hits(g) : CountedAt(g, i)

\* C31: a LEVEL_1 tick ends in GAME_OVER only if, at its collision pass, the
\* player overlaps the enemy (crouching, dizzy or not) or the non-crouching
\* player overlaps a flying or dropped obstacle with dizzy_hits >= 1; the
\* HighFlyingObstacle never overlaps the player at the collision pass.
C31_DefeatCauses ==
    [][IsTick =>
         \A rnd \in Draws :
            LET g == AtCollision(rnd)
            IN  TickWith(rnd) =>
                    /\ state' = GAME_OVER => LossBy(g)
                    /\ \A i \in Highs(g.obstacles) :
                           ~colliderect(PlayerRect(g.player),
                                        ObstacleRect(g.obstacles[i]))]_vars

\* the enemy caught a ducking player who had no hit counted, under the
\* hovering obstacle
C31_Witness ==
    /\ state = GAME_OVER /\ EnemyHits(Self) /\ Hits(Self) = {}
    /\ player.crouch /\ player.dizzy_hits = 0
    /\ Highs(obstacles) # {}

====
